---------------------------- MODULE Spec2Model ----------------------------
(***************************************************************************)
(* A model of the scene-graph-to-component compiler of vue-gltf-converter  *)
(* (src/src/utils/parser.ts): the walk over the loaded scene graph         *)
(* (parseScene and the extractors it calls), the animation collector       *)
(* (parseAnimations) and the emitter (generateComponent).                  *)
(*                                                                         *)
(* Conventions of the model                                                *)
(*  - A name (mesh name, clip name) is a sequence of one-character        *)
(*    strings, so that the regular expressions of sanitizeName can be     *)
(*    applied character by character.                                     *)
(*  - A tag or import name is a TLA+ string.                               *)
(*  - A real number is a fixed-point integer counting units of            *)
(*    10^-(FixedDigits+1): one decimal more than toFixed keeps, so that   *)
(*    the rounding is observable.  One is the number 1.0.                 *)
(*  - An optional member of a JS object is a sequence of length 0         *)
(*    (absent) or 1 (present).                                            *)
(*  - A JS property bag (Record<string, any>) is the sequence of its      *)
(*    <<key, value>> pairs in insertion order, which is the order of      *)
(*    Object.entries.                                                     *)
(***************************************************************************)
EXTENDS Integers, Sequences, FiniteSets, TLC

VARIABLES
    scene,      \* gltf.scene: node id -> Object3D record; node 1 is the root
    animations, \* gltf.animations: the clip list (clip objects by identity)
    config,     \* the ParseConfig handed to parseToVue
    stack,      \* the nodes scene.traverse has still to visit, next first
    data,       \* componentData: imports, animations, meshes, lights, cameras
    code,       \* the result of generateComponent (<<>> until it has run)
    pc,         \* the position inside parseToVue ("idle" outside of it)
    store,      \* the refs of useGltfStore: isLoading, error, fileName, ...
    calls       \* the calls of the store's async actions, in starting order

vars == <<scene, animations, config, stack, data, code, pc, store, calls>>

------------------------------------------------------------------------------
(* Bounds of the model                                                     *)

\* most nodes of a scene graph, the root included
MaxNodes == 4
\* most clips of a clip list
MaxClips == 3
\* longest raw name drawn for the sanitizer
MaxNameLen == 3

------------------------------------------------------------------------------
(* Characters and strings                                                  *)

LowerSeq == <<"a","b","c","d","e","f","g","h","i","j","k","l","m",
             "n","o","p","q","r","s","t","u","v","w","x","y","z">>
UpperSeq == <<"A","B","C","D","E","F","G","H","I","J","K","L","M",
             "N","O","P","Q","R","S","T","U","V","W","X","Y","Z">>
LowerCase == {LowerSeq[i] : i \in 1..Len(LowerSeq)}
UpperCase == {UpperSeq[i] : i \in 1..Len(UpperSeq)}
\* c.toUpperCase() of one character
ToUpperCase(c) ==
    IF c \in LowerCase
    THEN UpperSeq[CHOOSE i \in 1..Len(LowerSeq) : LowerSeq[i] = c]
    ELSE c
DigitSeq == <<"0","1","2","3","4","5","6","7","8","9">>
HexSeq == DigitSeq \o <<"a","b","c","d","e","f">>
DigitChars == {DigitSeq[i] : i \in 1..Len(DigitSeq)}

\* the character class [a-zA-Z0-9]
IsAlnum(c) == c \in LowerCase \cup UpperCase \cup DigitChars
\* the character class \d
IsDigit(c) == c \in DigitChars

\* String(n) of a non-negative integer, as a template literal renders it
RECURSIVE NatToStr(_)
NatToStr(n) == IF n < 10 THEN <<DigitSeq[n + 1]>>
               ELSE NatToStr(n \div 10) \o <<DigitSeq[(n % 10) + 1]>>

StrMesh_ == <<"M","e","s","h","_">>
StrAnimation_ == <<"A","n","i","m","a","t","i","o","n","_">>
StrComponent == <<"C","o","m","p","o","n","e","n","t">>
StrModel == <<"M","o","d","e","l">>
StrWalk == <<"W","a","l","k">>
StrCube == <<"C","u","b","e">>

\* s without its leading run of "_"  (the alternative ^_+ of the regex)
RECURSIVE TrimLeft(_)
TrimLeft(s) == IF s # <<>> /\ Head(s) = "_" THEN TrimLeft(Tail(s)) ELSE s

\* s without its trailing run of "_"  (the alternative _+$ of the regex)
RECURSIVE TrimRight(_)
TrimRight(s) == IF s # <<>> /\ s[Len(s)] = "_"
                THEN TrimRight(SubSeq(s, 1, Len(s) - 1)) ELSE s

\* name.replace(/[^a-zA-Z0-9]/g, '_')
ReplaceInvalid(name) ==
    [i \in 1..Len(name) |-> IF IsAlnum(name[i]) THEN name[i] ELSE "_"]

\* s.replace(/^(\d)/, '_$1')
PrefixDigit(s) == IF s # <<>> /\ IsDigit(s[1]) THEN <<"_">> \o s ELSE s

\* s.replace(/^_+|_+$/g, '')
TrimUnderscores(s) == TrimRight(TrimLeft(s))

\* sanitizeName of parser.ts; a || b yields b when a is the empty string
sanitizeName(name) ==
    LET s == TrimUnderscores(PrefixDigit(ReplaceInvalid(name)))
    IN  IF s = <<>> THEN StrComponent ELSE s

\* the part of s behind its last c, or s when it has none: s.split(c).pop()
RECURSIVE AfterLast(_, _)
AfterLast(s, c) ==
    IF \E i \in 1..Len(s) : s[i] = c
    THEN AfterLast(SubSeq(s, (CHOOSE i \in 1..Len(s) :
                               s[i] = c /\ \A j \in 1..(i - 1) : s[j] # c) + 1,
                          Len(s)), c)
    ELSE s

\* the part of s before its first c, or s when it has none: s.split(c)[0]
BeforeFirst(s, c) ==
    IF \E i \in 1..Len(s) : s[i] = c
    THEN SubSeq(s, 1, (CHOOSE i \in 1..Len(s) :
                         s[i] = c /\ \A j \in 1..(i - 1) : s[j] # c) - 1)
    ELSE s

\* getComponentName(fileName)
getComponentName(fileName) ==
    LET base == BeforeFirst(AfterLast(fileName, "/"), ".")
        baseName == IF base = <<>> THEN StrModel ELSE base
    IN  <<ToUpperCase(baseName[1])>>
        \o SelectSeq(Tail(baseName), IsAlnum)

\* the identifier syntax [A-Za-z_][A-Za-z0-9_]*
IsIdentifier(s) ==
    /\ s # <<>>
    /\ s[1] \in LowerCase \cup UpperCase \cup {"_"}
    /\ \A i \in 1..Len(s) : IsAlnum(s[i]) \/ s[i] = "_"

------------------------------------------------------------------------------
(* Numbers                                                                 *)

\* the digits toFixed keeps in parseTransform
FixedDigits == 3
\* the number 1.0 in fixed-point units
One == 10 ^ (FixedDigits + 1)

\* x rounded to a multiple of step, ties away from zero
RoundTo(x, step) ==
    IF x >= 0 THEN ((x + step \div 2) \div step) * step
    ELSE 0 - ((((0 - x) + step \div 2) \div step) * step)

\* Number(x.toFixed(digits)): the decimal rendering with `digits` decimals,
\* read back as a number
NumberToFixed(x, digits) == RoundTo(x, 10 ^ (FixedDigits + 1 - digits))

\* the colour 0xffffff, and the JS number it is
White == 16777215

\* Color.getHexString(): ('000000' + hex.toString(16)).slice(-6)
getHexString(hex) ==
    [i \in 1..6 |-> HexSeq[((hex \div (16 ^ (6 - i))) % 16) + 1]]

\* the template literal `0x${color.getHexString()}`
HexLiteral(hex) == <<"0", "x">> \o getHexString(hex)

------------------------------------------------------------------------------
(* Optional members and property bags                                      *)

None == <<>>
Some(v) == <<v>>
Has(o) == o # <<>>
\* a || d for a numeric member: undefined and 0 are falsy
OrDefault(o, d) == IF o = <<>> \/ o[1] = 0 THEN d ELSE o[1]

\* the keys of a property bag, in insertion order
Keys(props) == [i \in 1..Len(props) |-> props[i][1]]
HasKey(props, k) == \E i \in 1..Len(props) : props[i][1] = k
\* props[k] of a bag that has the key
Get(props, k) == props[CHOOSE i \in 1..Len(props) : props[i][1] = k][2]
\* props.k = v as the code uses it: every key is assigned at most once
Put(props, k, v) == Append(props, <<k, v>>)
PutIf(props, cond, k, v) == IF cond THEN Append(props, <<k, v>>) ELSE props

------------------------------------------------------------------------------
(* The three.js classes the walk tests with instanceof                     *)

\* the direct superclass of a class of three.js ("" above the roots)
SuperClass(c) ==
    CASE c = "MeshPhysicalMaterial" -> "MeshStandardMaterial"
      [] c \in {"MeshStandardMaterial", "MeshLambertMaterial",
                "MeshBasicMaterial", "MeshPhongMaterial",
                "ShaderMaterial"} -> "Material"
      [] c \in {"BoxGeometry", "SphereGeometry", "PlaneGeometry",
                "CylinderGeometry", "TorusGeometry"} -> "BufferGeometry"
      [] c = "ConeGeometry" -> "CylinderGeometry"
      [] c = "SkinnedMesh" -> "Mesh"
      [] c \in {"Mesh", "Light", "Camera", "Group", "Bone"} -> "Object3D"
      [] c \in {"DirectionalLight", "AmbientLight", "PointLight",
                "SpotLight", "HemisphereLight"} -> "Light"
      [] c \in {"PerspectiveCamera", "OrthographicCamera"} -> "Camera"
      [] OTHER -> ""

\* object instanceof THREE.<k>, for an object of class c
RECURSIVE InstanceOf(_, _)
InstanceOf(c, k) == IF c = "" THEN FALSE
                    ELSE IF c = k THEN TRUE
                    ELSE InstanceOf(SuperClass(c), k)

------------------------------------------------------------------------------
(* Extractors                                                              *)

\* type.replace('Geometry', ''): the first occurrence is removed; a type
\* is kept as the sequence of the words of its name
RECURSIVE RemoveFirst(_, _)
RemoveFirst(words, w) ==
    IF words = <<>> THEN <<>>
    ELSE IF Head(words) = w THEN Tail(words)
    ELSE <<Head(words)>> \o RemoveFirst(Tail(words), w)

RECURSIVE JoinWords(_)
JoinWords(words) == IF words = <<>> THEN ""
                    ELSE Head(words) \o JoinWords(Tail(words))

parseGeometry(geometry) ==
    LET type == JoinWords(RemoveFirst(geometry.type, "Geometry"))
        p == geometry.parameters
        args ==
            IF InstanceOf(geometry.class, "BoxGeometry") THEN
                IF Has(p) THEN Some(<<OrDefault(p[1].width, 1),
                                      OrDefault(p[1].height, 1),
                                      OrDefault(p[1].depth, 1)>>) ELSE None
            ELSE IF InstanceOf(geometry.class, "SphereGeometry") THEN
                IF Has(p) THEN Some(<<OrDefault(p[1].radius, 1),
                                      OrDefault(p[1].widthSegments, 32),
                                      OrDefault(p[1].heightSegments, 16)>>)
                ELSE None
            ELSE IF InstanceOf(geometry.class, "PlaneGeometry") THEN
                IF Has(p) THEN Some(<<OrDefault(p[1].width, 1),
                                      OrDefault(p[1].height, 1)>>) ELSE None
            ELSE IF InstanceOf(geometry.class, "CylinderGeometry") THEN
                IF Has(p) THEN Some(<<OrDefault(p[1].radiusTop, 1),
                                      OrDefault(p[1].radiusBottom, 1),
                                      OrDefault(p[1].height, 1)>>) ELSE None
            ELSE None
    IN  [type |-> type,
         props |-> IF Has(args) THEN <<<<"args", args[1]>>>> ELSE <<>>]

\* the properties all material kinds share (parser.ts 206-211)
CommonMaterialProps(props, m) ==
    LET p1 == PutIf(props, m.transparent, "transparent", TRUE)
        p2 == PutIf(p1, m.opacity # One, "opacity", m.opacity)
    IN  PutIf(p2, m.side # "FrontSide", "side",
              IF m.side = "BackSide" THEN "BackSide" ELSE "DoubleSide")

\* parseMaterial for one material object m: the descriptor, and the tag it
\* adds to data.imports
parseOneMaterial(m) ==
    IF InstanceOf(m.class, "MeshStandardMaterial") THEN
        LET p1 == PutIf(<<>>, Has(m.color), "color", HexLiteral(m.color[1]))
            p2 == PutIf(p1, m.roughness # One, "roughness", m.roughness)
            p3 == PutIf(p2, m.metalness # 0, "metalness", m.metalness)
            p4 == PutIf(p3, Has(m.emissive) /\ m.emissive[1] # 0,
                        "emissive", HexLiteral(m.emissive[1]))
        IN  [type |-> "TresMeshStandardMaterial",
             props |-> CommonMaterialProps(p4, m),
             import |-> "TresMeshStandardMaterial"]
    ELSE IF InstanceOf(m.class, "MeshPhysicalMaterial") THEN
        LET p1 == PutIf(<<>>, Has(m.color), "color", HexLiteral(m.color[1]))
            p2 == PutIf(p1, m.roughness # One, "roughness", m.roughness)
            p3 == PutIf(p2, m.metalness # 0, "metalness", m.metalness)
            p4 == PutIf(p3, m.clearcoat # 0, "clearcoat", m.clearcoat)
        IN  [type |-> "TresMeshPhysicalMaterial",
             props |-> CommonMaterialProps(p4, m),
             import |-> "TresMeshPhysicalMaterial"]
    ELSE IF InstanceOf(m.class, "MeshLambertMaterial") THEN
        [type |-> "TresMeshLambertMaterial",
         props |-> CommonMaterialProps(
                     PutIf(<<>>, Has(m.color), "color",
                           HexLiteral(m.color[1])), m),
         import |-> "TresMeshLambertMaterial"]
    ELSE
        [type |-> "TresMeshBasicMaterial",
         props |-> CommonMaterialProps(
                     PutIf(<<>>, Has(m.color), "color",
                           HexLiteral(m.color[1])), m),
         import |-> "TresMeshBasicMaterial"]

\* material = material[0] of an array leaves undefined when the array is
\* empty, and the else branch's `'color' in material` then throws
MaterialThrows(material) == material.isArray /\ material.items = <<>>

\* parseMaterial reading the last element of an array
parseMaterialLastElement(material) ==
    parseOneMaterial(material.items[Len(material.items)])

\* parseMaterial(material, data): an array is cut to its first element
parseMaterial(material) == parseOneMaterial(material.items[1])

\* one axis triple of parseTransform: absent when the raw triple is
\* neutral, else every scalar through toFixed(3)
TransformTriple(v, neutral) ==
    IF v[1] # neutral \/ v[2] # neutral \/ v[3] # neutral
    THEN Some(<<NumberToFixed(v[1], FixedDigits),
                NumberToFixed(v[2], FixedDigits),
                NumberToFixed(v[3], FixedDigits)>>)
    ELSE None

parseTransform(object) ==
    [position |-> TransformTriple(object.position, 0),
     rotation |-> TransformTriple(object.rotation, 0),
     scale    |-> TransformTriple(object.scale, One)]

\* the colour of a light, emitted unless pure white
LightColor(props, light) ==
    PutIf(props, light.color # White, "color", HexLiteral(light.color))

\* parseLight(light, data): data with the light's entry appended
parseLight(light, d) ==
    LET transform == parseTransform(light)
        hit ==
            IF InstanceOf(light.class, "DirectionalLight") THEN
                [type |-> "TresDirectionalLight",
                 import |-> {"TresDirectionalLight"},
                 props |-> LightColor(
                     Put(<<>>, "intensity", light.intensity), light)]
            ELSE IF InstanceOf(light.class, "AmbientLight") THEN
                [type |-> "TresAmbientLight",
                 import |-> {"TresAmbientLight"},
                 props |-> LightColor(
                     Put(<<>>, "intensity", light.intensity), light)]
            ELSE IF InstanceOf(light.class, "PointLight") THEN
                [type |-> "TresPointLight",
                 import |-> {"TresPointLight"},
                 props |-> LightColor(
                     Put(Put(<<>>, "intensity", light.intensity),
                         "distance", light.distance), light)]
            ELSE IF InstanceOf(light.class, "SpotLight") THEN
                [type |-> "TresSpotLight",
                 import |-> {"TresSpotLight"},
                 props |-> LightColor(
                     Put(Put(Put(Put(<<>>, "intensity", light.intensity),
                                 "distance", light.distance),
                             "angle", light.angle),
                         "penumbra", light.penumbra), light)]
            ELSE [type |-> "TresAmbientLight", import |-> {}, props |-> <<>>]
    IN  [d EXCEPT !.imports = @ \cup hit.import,
                  !.lights = Append(@, [type |-> hit.type,
                                        props |-> hit.props,
                                        transform |-> transform])]

\* parseCamera(camera, data): data with the camera's entry appended
parseCamera(camera, d) ==
    LET transform == parseTransform(camera)
        hit ==
            IF InstanceOf(camera.class, "PerspectiveCamera") THEN
                [type |-> "TresPerspectiveCamera",
                 import |-> {"TresPerspectiveCamera"},
                 props |-> <<<<"fov", camera.fov>>,
                             <<"aspect", camera.aspect>>,
                             <<"near", camera.near>>,
                             <<"far", camera.far>>>>]
            ELSE IF InstanceOf(camera.class, "OrthographicCamera") THEN
                [type |-> "TresOrthographicCamera",
                 import |-> {"TresOrthographicCamera"},
                 props |-> <<<<"left", camera.left>>,
                             <<"right", camera.right>>,
                             <<"top", camera.top>>,
                             <<"bottom", camera.bottom>>,
                             <<"near", camera.near>>,
                             <<"far", camera.far>>>>]
            ELSE [type |-> "TresPerspectiveCamera", import |-> {},
                  props |-> <<>>]
    IN  [d EXCEPT !.imports = @ \cup hit.import,
                  !.cameras = Append(@, [type |-> hit.type,
                                         props |-> hit.props,
                                         transform |-> transform])]

\* the name parseMesh gives the mesh it appends as entry number
\* Len(meshes) + 1:  sanitizeName(mesh.name || `Mesh_${data.meshes.length}`)
MeshName(mesh, meshes) ==
    sanitizeName(IF mesh.name = <<>> THEN StrMesh_ \o NatToStr(Len(meshes))
                 ELSE mesh.name)

\* parseMesh(mesh, data, config): data with the mesh's entry appended
parseMesh(mesh, d, cfg) ==
    LET material == parseMaterial(mesh.material)
    IN  [d EXCEPT
           !.imports = @ \cup {material.import},
           !.meshes = Append(@,
              [name |-> MeshName(mesh, d.meshes),
               geometry |-> parseGeometry(mesh.geometry),
               material |-> [type |-> material.type, props |-> material.props],
               transform |-> parseTransform(mesh),
               castShadow |-> cfg.shadows /\ mesh.castShadow,
               receiveShadow |-> cfg.shadows /\ mesh.receiveShadow])]

\* ClipName with the clips counted from one
ClipNameFromOne(clip, index) ==
    sanitizeName(IF clip.name = <<>>
                 THEN StrAnimation_ \o NatToStr(index + 1)
                 ELSE clip.name)

\* the name parseAnimations gives the clip at array index `index`
ClipName(clip, index) ==
    sanitizeName(IF clip.name = <<>> THEN StrAnimation_ \o NatToStr(index)
                 ELSE clip.name)

\* parseAnimations skipping a clip object it has met before
parseAnimationsOncePerClip(clips, d) ==
    LET first == SelectSeq([i \in 1..Len(clips) |-> i],
                     LAMBDA i : \A j \in 1..(i - 1) : clips[j].id # clips[i].id)
    IN  [d EXCEPT !.imports = @ \cup {"useAnimations"},
                  !.animations = @ \o [k \in 1..Len(first) |->
                                 ClipName(clips[first[k]], first[k] - 1)]]

\* parseAnimations(animations, data)
parseAnimations(clips, d) ==
    [d EXCEPT !.imports = @ \cup {"useAnimations"},
              !.animations = @ \o [i \in 1..Len(clips) |->
                                      ClipName(clips[i], i - 1)]]

------------------------------------------------------------------------------
(* Emitter.  The emitted text is kept as its structure: the template is    *)
(* the sequence of its lines, a line being a record of its parts; the     *)
(* five text lines of one mesh are one "mesh" line with the geometry and  *)
(* the material element inside.                                           *)

Line(cat, tag, name, transform, flags, attrs, inner) ==
    [cat |-> cat, tag |-> tag, name |-> name, transform |-> transform,
     flags |-> flags, attrs |-> attrs, inner |-> inner]

\* a line of the template that is no entity
Plain(cat, tag, flags, attrs) == Line(cat, tag, <<>>, <<>>, flags, attrs, <<>>)

\* generateTransformProps(transform): the attributes, in emission order
generateTransformProps(transform) ==
    (IF Has(transform.position)
        THEN <<<<"position", transform.position[1]>>>> ELSE <<>>)
    \o (IF Has(transform.rotation)
        THEN <<<<"rotation", transform.rotation[1]>>>> ELSE <<>>)
    \o (IF Has(transform.scale)
        THEN <<<<"scale", transform.scale[1]>>>> ELSE <<>>)

generateLightTemplate(light) ==
    Line("light", light.type, <<>>, generateTransformProps(light.transform),
         <<>>, light.props, <<>>)

generateCameraTemplate(camera) ==
    Line("camera", camera.type, <<>>,
         generateTransformProps(camera.transform), <<>>, camera.props, <<>>)

\* generateMeshTemplate marking every mesh when config.shadows is set
generateMeshTemplateAllMarked(mesh, cfg) ==
    Line("mesh", "TresMesh", mesh.name,
         generateTransformProps(mesh.transform),
         IF cfg.shadows THEN <<"cast-shadow", "receive-shadow">> ELSE <<>>,
         <<>>,
         << Plain("geometry", "Tres" \o mesh.geometry.type \o "Geometry",
                  <<>>, mesh.geometry.props),
            Plain("material", mesh.material.type, <<>>,
                  mesh.material.props) >>)

generateMeshTemplate(mesh, cfg) ==
    Line("mesh", "TresMesh", mesh.name,
         generateTransformProps(mesh.transform),
         IF cfg.shadows /\ (mesh.castShadow \/ mesh.receiveShadow)
            THEN <<"cast-shadow", "receive-shadow">> ELSE <<>>,
         <<>>,
         << Plain("geometry", "Tres" \o mesh.geometry.type \o "Geometry",
                  <<>>, mesh.geometry.props),
            Plain("material", mesh.material.type, <<>>,
                  mesh.material.props) >>)

\* list.map(f).join('\n') inside the template literal: the lines of the
\* list, or one empty line when the list is empty
JoinedLines(lines) ==
    IF lines = <<>> THEN <<Plain("blank", "", <<>>, <<>>)>> ELSE lines

\* generateTemplate with the meshes written before the lights
generateTemplateMeshesFirst(d, cfg) ==
    LET lights == [i \in 1..Len(d.lights) |-> generateLightTemplate(d.lights[i])]
        meshes == [i \in 1..Len(d.meshes) |->
                      generateMeshTemplate(d.meshes[i], cfg)]
        cameras == [i \in 1..Len(d.cameras) |->
                      generateCameraTemplate(d.cameras[i])]
    IN  <<Plain("open", "TresGroup",
                IF Len(d.animations) > 0 THEN <<"ref=group">> ELSE <<>>, <<>>)>>
        \o JoinedLines(meshes)
        \o JoinedLines(lights)
        \o JoinedLines(cameras)
        \o <<Plain("comment", "GLTF Scene", <<>>, <<>>),
             Plain("primitive", "primitive", <<>>, <<<<"object", "scene">>>>),
             Plain("close", "TresGroup", <<>>, <<>>)>>

\* generateTemplate without the camera lines
generateTemplateWithoutCameras(d, cfg) ==
    LET lights == [i \in 1..Len(d.lights) |-> generateLightTemplate(d.lights[i])]
        meshes == [i \in 1..Len(d.meshes) |->
                      generateMeshTemplate(d.meshes[i], cfg)]
    IN  <<Plain("open", "TresGroup",
                IF Len(d.animations) > 0 THEN <<"ref=group">> ELSE <<>>, <<>>)>>
        \o JoinedLines(lights)
        \o JoinedLines(meshes)
        \o <<Plain("comment", "GLTF Scene", <<>>, <<>>),
             Plain("primitive", "primitive", <<>>, <<<<"object", "scene">>>>),
             Plain("close", "TresGroup", <<>>, <<>>)>>

\* generateTemplate writing the primitive only when no entity was extracted
generateTemplatePrimitiveIfEmpty(d, cfg) ==
    LET lights == [i \in 1..Len(d.lights) |-> generateLightTemplate(d.lights[i])]
        meshes == [i \in 1..Len(d.meshes) |->
                      generateMeshTemplate(d.meshes[i], cfg)]
        cameras == [i \in 1..Len(d.cameras) |->
                      generateCameraTemplate(d.cameras[i])]
    IN  <<Plain("open", "TresGroup",
                IF Len(d.animations) > 0 THEN <<"ref=group">> ELSE <<>>, <<>>)>>
        \o JoinedLines(lights)
        \o JoinedLines(meshes)
        \o JoinedLines(cameras)
        \o (IF lights \o meshes \o cameras = <<>>
            THEN <<Plain("comment", "GLTF Scene", <<>>, <<>>),
                   Plain("primitive", "primitive", <<>>,
                         <<<<"object", "scene">>>>)>>
            ELSE <<>>)
        \o <<Plain("close", "TresGroup", <<>>, <<>>)>>

generateTemplate(d, cfg) ==
    LET hasAnimations == Len(d.animations) > 0
        lights == [i \in 1..Len(d.lights) |-> generateLightTemplate(d.lights[i])]
        meshes == [i \in 1..Len(d.meshes) |->
                      generateMeshTemplate(d.meshes[i], cfg)]
        cameras == [i \in 1..Len(d.cameras) |->
                      generateCameraTemplate(d.cameras[i])]
    IN  <<Plain("open", "TresGroup",
                IF hasAnimations THEN <<"ref=group">> ELSE <<>>, <<>>)>>
        \o JoinedLines(lights)
        \o JoinedLines(meshes)
        \o JoinedLines(cameras)
        \o <<Plain("comment", "GLTF Scene", <<>>, <<>>),
             Plain("primitive", "primitive", <<>>, <<<<"object", "scene">>>>),
             Plain("close", "TresGroup", <<>>, <<>>)>>

\* the members of a set of strings in the order of Array.prototype.sort;
\* the order among tags is fixed by the table TagOrder
TagOrder ==
    <<"TresAmbientLight", "TresDirectionalLight", "TresGroup", "TresMesh",
      "TresMeshBasicMaterial", "TresMeshLambertMaterial",
      "TresMeshPhysicalMaterial", "TresMeshStandardMaterial",
      "TresOrthographicCamera", "TresPerspectiveCamera", "TresPointLight",
      "TresSpotLight", "useAnimations">>

SortedTags(set) == SelectSeq(TagOrder, LAMBDA t : t \in set)

\* one import statement
Import(names, from, typeOnly) ==
    [names |-> names, from |-> from, typeOnly |-> typeOnly]

\* generateImports importing the animation helper whatever the clips
generateImportsWithHelper(d, cfg) ==
    (IF cfg.types THEN <<Import(<<"Ref">>, "vue", TRUE)>> ELSE <<>>)
    \o <<Import(IF cfg.useComposition THEN <<"ref", "onMounted">> ELSE <<>>,
                "vue", FALSE),
         Import(SortedTags(d.imports), "@tresjs/core", FALSE),
         Import(<<"useGLTF", "useAnimations">>, "@tresjs/cientos", FALSE)>>

generateImports(d, cfg) ==
    LET tresImports == SortedTags(d.imports)
        vueImports == IF cfg.useComposition THEN <<"ref", "onMounted">>
                      ELSE <<>>
        hasAnimations == Len(d.animations) > 0
        cientos == IF hasAnimations THEN <<"useGLTF", "useAnimations">>
                   ELSE <<"useGLTF">>
    IN  (IF cfg.types THEN <<Import(<<"Ref">>, "vue", TRUE)>> ELSE <<>>)
        \o <<Import(vueImports, "vue", FALSE),
             Import(tresImports, "@tresjs/core", FALSE),
             Import(cientos, "@tresjs/cientos", FALSE)>>

\* generateProps(config): the path parameter, typed or untyped
generateProps(cfg) == [typed |-> cfg.types, path |-> cfg.fileName]

\* generateSetup(data, config): the statements of the setup block
generateSetup(d, cfg) ==
    LET hasAnimations == Len(d.animations) > 0
    IN  <<"useGLTF(props.path)">>
        \o (IF hasAnimations
            THEN <<"group = ref()", "useAnimations(animations, group)",
                   "onMounted(play all actions)">>
            ELSE <<>>)

generateCompositionComponent(d, cfg, componentName) ==
    [style |-> "composition",
     name |-> <<>>,
     template |-> generateTemplate(d, cfg),
     lang |-> IF cfg.types THEN "ts" ELSE "js",
     imports |-> generateImports(d, cfg),
     props |-> generateProps(cfg),
     setup |-> generateSetup(d, cfg)]

generateOptionsComponent(d, cfg, componentName) ==
    [style |-> "options",
     name |-> componentName,
     template |-> generateTemplate(d, cfg),
     lang |-> IF cfg.types THEN "ts" ELSE "js",
     imports |-> generateImports(d, cfg),
     props |-> [typed |-> FALSE, path |-> cfg.fileName],
     setup |-> <<"useGLTF(props.path)">>]

\* generateComponent(data, config); useComposition !== false is kept in
\* the configuration as a boolean
generateComponent(d, cfg) ==
    LET componentName == getComponentName(cfg.fileName)
    IN  IF cfg.useComposition
        THEN generateCompositionComponent(d, cfg, componentName)
        ELSE generateOptionsComponent(d, cfg, componentName)

------------------------------------------------------------------------------
(* parseToVue as a state machine                                           *)

\* the refs of useGltfStore as defineStore creates them: '' is the empty
\* sequence, null and '' of code are the absent member; hasCodeRef and
\* hasAnimationsRef are the refs hasCode and hasAnimations of the store
\* variant that keeps them as refs, which the other variant computes
NewStore ==
    [isLoading |-> FALSE, error |-> None, fileName |-> <<>>, code |-> None,
     buffers |-> None, animations |-> <<>>, cameras |-> <<>>, scene |-> None,
     hasCodeRef |-> FALSE, hasAnimationsRef |-> FALSE]

\* componentData as parseToVue creates it, with the two basic imports
NewComponentData ==
    [imports |-> {"TresGroup", "TresMesh"},
     animations |-> <<>>,
     meshes |-> <<>>,
     lights |-> <<>>,
     cameras |-> <<>>]

\* the callback parseScene hands to scene.traverse, for node n
Callback(n, d, cfg) ==
    IF n = 1 THEN d
    ELSE IF InstanceOf(scene[n].class, "Mesh") THEN
        IF MaterialThrows(scene[n].material)
        THEN [d EXCEPT !.imports = @ \cup {"TresMeshBasicMaterial"}]
        ELSE parseMesh(scene[n], d, cfg)
    ELSE IF InstanceOf(scene[n].class, "Light") THEN parseLight(scene[n], d)
    ELSE IF InstanceOf(scene[n].class, "Camera") THEN parseCamera(scene[n], d)
    ELSE d

\* whether the callback throws for node n
CallbackThrows(n) ==
    /\ n # 1
    /\ InstanceOf(scene[n].class, "Mesh")
    /\ MaterialThrows(scene[n].material)

\* Descend visiting level by level: the children behind what was left
DescendBreadthFirst(n, rest) == rest \o scene[n].children

\* the nodes Object3D.traverse visits after node n: its children, in
\* order, before what was left
Descend(n, rest) == scene[n].children \o rest

\* one step of scene.traverse: the callback on the next node, then the
\* descent into its children; parseScene returns when no node is left
TraverseStep ==
    /\ pc = "traverse"
    /\ stack # <<>>
    /\ LET n == Head(stack)
           rest == Descend(n, Tail(stack))
       IN  /\ data' = Callback(n, data, config)
           /\ IF CallbackThrows(n)
              THEN /\ stack' = <<>>
                   /\ pc' = "threw"
              ELSE /\ stack' = rest
                   /\ pc' = IF rest = <<>> THEN "animations" ELSE "traverse"
    /\ UNCHANGED <<scene, animations, config, code, store, calls>>

\* if (gltf.animations && gltf.animations.length > 0) parseAnimations(...)
AnimationsStep ==
    /\ pc = "animations"
    /\ data' = IF Len(animations) > 0 THEN parseAnimations(animations, data)
               ELSE data
    /\ pc' = "generate"
    /\ UNCHANGED <<scene, animations, config, stack, code, store, calls>>

\* return generateComponent(componentData, config)
GenerateStep ==
    /\ pc = "generate"
    /\ code' = Some(generateComponent(data, config))
    /\ pc' = "done"
    /\ UNCHANGED <<scene, animations, config, stack, data, store, calls>>

Next == TraverseStep \/ AnimationsStep \/ GenerateStep

------------------------------------------------------------------------------
(* Inputs: the objects the loader hands over, as three.js constructs them  *)

\* a geometry's parameters object with no member set
NoParameters ==
    [width |-> None, height |-> None, depth |-> None, radius |-> None,
     widthSegments |-> None, heightSegments |-> None,
     radiusTop |-> None, radiusBottom |-> None]

\* the geometry of a loaded model: a BufferGeometry, without parameters
BufferGeometry ==
    [class |-> "BufferGeometry", type |-> <<"Buffer", "Geometry">>,
     parameters |-> None]

BoxGeometry(w, h, d) ==
    [class |-> "BoxGeometry", type |-> <<"Box", "Geometry">>,
     parameters |-> Some([NoParameters EXCEPT !.width = Some(w),
                            !.height = Some(h), !.depth = Some(d)])]

\* new THREE.<class>(): a material at every default (a ShaderMaterial has
\* no colour channel)
Material(class) ==
    [class |-> class,
     color |-> IF class = "ShaderMaterial" THEN None ELSE Some(White),
     roughness |-> One, metalness |-> 0, clearcoat |-> 0,
     emissive |-> Some(0),
     transparent |-> FALSE, opacity |-> One, side |-> "FrontSide"]

\* mesh.material: one material, or an array of materials
Single(m) == [isArray |-> FALSE, items |-> <<m>>]

\* new THREE.<class>(): an object at identity transform without children
Object3D(class) ==
    [class |-> class, name |-> <<>>,
     position |-> <<0, 0, 0>>, rotation |-> <<0, 0, 0>>,
     scale |-> <<One, One, One>>,
     castShadow |-> FALSE, receiveShadow |-> FALSE,
     children |-> <<>>,
     geometry |-> BufferGeometry,
     material |-> Single(Material("MeshBasicMaterial")),
     intensity |-> One, color |-> White, distance |-> 0,
     angle |-> 10472, penumbra |-> 0,
     fov |-> 50, aspect |-> 1, near |-> 1, far |-> 2000,
     left |-> -1, right |-> 1, top |-> 1, bottom |-> -1]

\* the members of a finite set of integers, ascending
RECURSIVE SortedSeq(_)
SortedSeq(S) ==
    IF S = {} THEN <<>>
    ELSE LET m == CHOOSE x \in S : \A y \in S : x <= y
         IN  <<m>> \o SortedSeq(S \ {m})

\* the parent of every node but the root: trees over the nodes 1..n in
\* which a node's id is larger than its parent's
Parents(n) == {p \in [2..n -> 1..n] : \A i \in 2..n : p[i] < i}

\* the scene graph with the given nodes and parents; the children of a
\* node are ordered by id
BuildScene(nodes, p) ==
    [i \in 1..Len(nodes) |->
        [nodes[i] EXCEPT
            !.children = SortedSeq({j \in 2..Len(nodes) : p[j] = i})]]

\* a ParseConfig; precision is the optional member the README documents
\* ("Decimal precision for numerical values"), which ParseConfig does not
\* declare and no function of parser.ts reads
Config(types, useComposition, shadows, precision) ==
    [fileName |-> <<"m","y","-","c","a","r",".","g","l","b">>,
     types |-> types,
     useComposition |-> useComposition, shadows |-> shadows,
     precision |-> precision]

\* the state in which parseToVue starts on a scene graph of at most
\* maxNodes nodes, with a root of `roots` and the other nodes of `others`,
\* a clip list of clipLists and a configuration of configs
InitWith(roots, others, maxNodes, clipLists, configs) ==
    /\ \E n \in 1..maxNodes :
         \E p \in Parents(n), r \in roots, rest \in [1..(n - 1) -> others] :
            scene = BuildScene(<<r>> \o rest, p)
    /\ animations \in clipLists
    /\ config \in configs
    /\ stack = <<1>>
    /\ data = NewComponentData
    /\ code = None
    /\ pc = "traverse"
    /\ store = NewStore
    /\ calls = <<>>

\* every sequence over S of length at most n
SeqsUpTo(S, n) == UNION {[1..k -> S] : k \in 0..n}

(* The walk: scene graphs of mixed nodes in every shape *)

DirLight ==
    [Object3D("DirectionalLight") EXCEPT
        !.position = <<10 * One, 10 * One, 5 * One>>]
PointLight ==
    [Object3D("PointLight") EXCEPT
        !.intensity = 2 * One, !.color = 16711680, !.distance = 3 * One]
HemiLight == [Object3D("HemisphereLight") EXCEPT !.intensity = 3 * One]
CubeMesh ==
    [Object3D("Mesh") EXCEPT
        !.name = StrCube, !.geometry = BoxGeometry(2, 3, 4),
        !.material = Single(Material("MeshStandardMaterial")),
        !.castShadow = TRUE]
BareMesh == Object3D("Mesh")
PerspCamera == Object3D("PerspectiveCamera")
OrthoCamera == [Object3D("OrthographicCamera") EXCEPT !.near = 2]
Group == Object3D("Group")

WalkNodes == {DirLight, PointLight, CubeMesh, BareMesh,
              PerspCamera, OrthoCamera, Group}

WalkClip == [id |-> 1, name |-> StrWalk]

Init ==
    InitWith({Group}, WalkNodes, MaxNodes,
             {<<WalkClip>>}, {Config(TRUE, TRUE, TRUE, None)})

Spec == Init /\ [][Next]_vars

------------------------------------------------------------------------------
(* The scene graph as the claims speak of it                               *)

\* the nodes of the subtree of n in depth-first pre-order
RECURSIVE PreOrder(_, _), PreOrderAll(_, _)
PreOrder(sc, n) == <<n>> \o PreOrderAll(sc, sc[n].children)
PreOrderAll(sc, ns) ==
    IF ns = <<>> THEN <<>>
    ELSE PreOrder(sc, Head(ns)) \o PreOrderAll(sc, Tail(ns))

\* the strict descendants of the root in depth-first pre-order
Descendants == Tail(PreOrder(scene, 1))

IsMeshNode(n) == InstanceOf(scene[n].class, "Mesh")
IsLightNode(n) == InstanceOf(scene[n].class, "Light")
IsCameraNode(n) == InstanceOf(scene[n].class, "Camera")

MeshNodes == SelectSeq(Descendants, IsMeshNode)
LightNodes == SelectSeq(Descendants, IsLightNode)
CameraNodes == SelectSeq(Descendants, IsCameraNode)

\* the walk is over: parseScene has returned
Walked == pc \in {"animations", "generate", "done"}

\* the emitted template, once generateComponent has returned
Template == code[1].template

LinesOf(cat) == SelectSeq(Template, LAMBDA l : l.cat = cat)

------------------------------------------------------------------------------
(* C6: after the walk, requiredImports contains the tag of every entity   *)
(* the markup block references: every light tag, camera tag, material     *)
(* type and geometry tag (Tres<Kind>Geometry) of an IR entry.             *)
C6_ImportsCoverTags ==
    Walked =>
        /\ \A i \in 1..Len(data.lights) : data.lights[i].type \in data.imports
        /\ \A i \in 1..Len(data.cameras) :
              data.cameras[i].type \in data.imports
        /\ \A i \in 1..Len(data.meshes) :
              /\ data.meshes[i].material.type \in data.imports
              /\ ("Tres" \o data.meshes[i].geometry.type \o "Geometry")
                    \in data.imports

------------------------------------------------------------------------------
(* C10: in the emitted markup block all light lines come first, then all  *)
(* mesh lines, then all camera lines, whatever the order in which the     *)
(* traversal met the nodes; within a category the lines are in traversal  *)
(* order.  A line is matched to its node by a value the extractors pass   *)
(* through: a light's intensity, a camera's near plane, a mesh's kind of  *)
(* geometry.                                                              *)
CategoryRank(cat) ==
    CASE cat = "light" -> 1 [] cat = "mesh" -> 2 [] cat = "camera" -> 3
      [] OTHER -> 0

C10_CategoryOrder ==
    pc = "done" =>
        /\ \A i, j \in 1..Len(Template) :
              (i < j /\ CategoryRank(Template[i].cat) > 0
                     /\ CategoryRank(Template[j].cat) > 0)
              => CategoryRank(Template[i].cat) <= CategoryRank(Template[j].cat)
        /\ [i \in 1..Len(LinesOf("light")) |->
               Get(LinesOf("light")[i].attrs, "intensity")]
           = [i \in 1..Len(LightNodes) |-> scene[LightNodes[i]].intensity]
        /\ [i \in 1..Len(LinesOf("camera")) |->
               Get(LinesOf("camera")[i].attrs, "near")]
           = [i \in 1..Len(CameraNodes) |-> scene[CameraNodes[i]].near]
        /\ [i \in 1..Len(LinesOf("mesh")) |->
               LinesOf("mesh")[i].inner[1].tag = "TresBoxGeometry"]
           = [i \in 1..Len(MeshNodes) |->
               scene[MeshNodes[i]].geometry.class = "BoxGeometry"]

\* a camera met before a mesh and a mesh met before a light, and the
\* markup written
C10_Witness ==
    /\ pc = "done"
    /\ \E i, j, k \in 1..Len(Descendants) :
          /\ i < j /\ j < k
          /\ IsCameraNode(Descendants[i])
          /\ IsMeshNode(Descendants[j])
          /\ IsLightNode(Descendants[k])
    /\ Len(Template) = 7

------------------------------------------------------------------------------
(* The animation collector: every clip list over a few clip objects.  A   *)
(* clip object is known by its id; the same object may occur twice in a   *)
(* list, and two objects may bear the same name.                          *)

ClipObjects ==
    {[id |-> 1, name |-> <<>>],
     [id |-> 2, name |-> StrWalk],
     [id |-> 3, name |-> StrWalk],
     [id |-> 4, name |-> <<"R", "u", "n", " ", "2">>]}

AllConfigs ==
    {Config(t, c, s, None) : t \in BOOLEAN, c \in BOOLEAN, s \in BOOLEAN}

InitAnimations ==
    InitWith({Group}, {CubeMesh}, 2,
             SeqsUpTo(ClipObjects, MaxClips), AllConfigs)

SpecAnimations == InitAnimations /\ [][Next]_vars

\* parseAnimations has run, or was skipped for an empty list
Collected == pc \in {"generate", "done"}

ClipIds == {animations[i].id : i \in 1..Len(animations)}

(* C7: animationNames holds exactly one entry per distinct animation clip, *)
(* de-duplicated by clip identity and not by name.  This is the claim as  *)
(* it stands; the collector does not de-duplicate.                        *)
C7_OnePerDistinctClip ==
    Collected => Len(data.animations) = Cardinality(ClipIds)

(* C7, amended: animationNames holds exactly one entry per element of the *)
(* clip list, without de-duplication: a clip object that occurs twice in  *)
(* the list contributes two entries, as do two clips of the same name.    *)
C7_OnePerListElement ==
    Collected => Len(data.animations) = Len(animations)

\* a list in which one clip object occurs twice and another object bears
\* the same name, collected
C7_Witness ==
    /\ Collected
    /\ \E i, j, k \in 1..Len(animations) :
          /\ i # j
          /\ animations[i].id = animations[j].id
          /\ animations[k].id # animations[i].id
          /\ animations[k].name = animations[i].name
    /\ Len(data.animations) = 3

\* a name of letters only
IsPlainWord(s) == \A i \in 1..Len(s) : s[i] \in LowerCase \cup UpperCase

(* C8: the collector appends one sanitized name per clip in clip-array    *)
(* order; a clip with an empty name at array index i is named             *)
(* Animation_i, a clip whose name is a plain word keeps it, and any       *)
(* other name has its invalid characters replaced: the clips "" and       *)
(* "Walk" give <<"Animation_0", "Walk">>.                                 *)
C8_NamesInClipOrder ==
    Collected =>
        /\ DOMAIN data.animations = DOMAIN animations
        /\ \A i \in 1..Len(animations) :
              LET name == animations[i].name
                  out == data.animations[i]
              IN  IF name = <<>> THEN out = StrAnimation_ \o NatToStr(i - 1)
                  ELSE IF IsPlainWord(name) THEN out = name
                  ELSE /\ Len(out) = Len(name)
                       /\ \A k \in 1..Len(name) :
                             out[k] = IF IsAlnum(name[k]) THEN name[k]
                                      ELSE "_"

\* the clips "" and "Walk", collected as Animation_0 and Walk
C8_Witness ==
    /\ pc = "done"
    /\ [i \in 1..Len(animations) |-> animations[i].name] = <<<<>>, StrWalk>>
    /\ data.animations = <<StrAnimation_ \o <<"0">>, StrWalk>>

------------------------------------------------------------------------------
(* The sanitizer: meshes under every short name over a few characters     *)

NameAlphabet == {"a", "7", "_", "-"}

NamedMesh(name) == [BareMesh EXCEPT !.name = name]

InitNames ==
    InitWith({Group},
             {NamedMesh(s) : s \in SeqsUpTo(NameAlphabet, MaxNameLen)}, 3,
             {<<>>, <<WalkClip>>}, {Config(TRUE, TRUE, TRUE, None)})

SpecNames == InitNames /\ [][Next]_vars

(* C1: for every input string the result of sanitizeName is non-empty and *)
(* matches [A-Za-z_][A-Za-z0-9_]*: its first character is a letter or an  *)
(* underscore, never a digit.  Stated of the name of every mesh entry,    *)
(* which is the result of sanitizeName.                                   *)
C1_NamesAreIdentifiers ==
    \A i \in 1..Len(data.meshes) : IsIdentifier(data.meshes[i].name)

\* a name that is not empty and has no character of [A-Za-z0-9]
IsAllInvalid(name) ==
    name # <<>> /\ \A k \in 1..Len(name) : ~IsAlnum(name[k])

(* C9: a mesh whose name is non-empty but has only characters outside     *)
(* [A-Za-z0-9] receives as sanitizedName the fixed placeholder base       *)
(* followed by its positional index, so that two such meshes of one       *)
(* traversal get different names.                                         *)
C9_PlaceholderWithIndex ==
    Walked =>
        /\ \A i \in 1..Len(data.meshes) :
              IsAllInvalid(scene[MeshNodes[i]].name) =>
                 data.meshes[i].name \in
                    {StrMesh_ \o NatToStr(i - 1),
                     StrComponent \o NatToStr(i - 1),
                     StrComponent \o <<"_">> \o NatToStr(i - 1)}
        /\ \A i, j \in 1..Len(data.meshes) :
              (/\ i # j
               /\ IsAllInvalid(scene[MeshNodes[i]].name)
               /\ IsAllInvalid(scene[MeshNodes[j]].name))
              => data.meshes[i].name # data.meshes[j].name

------------------------------------------------------------------------------
(* The material extractor: one mesh under every material of a grid        *)

Half == One \div 2
Red == 255 * 65536

MaterialGrid ==
    {[class |-> c,
      color |-> IF c = "ShaderMaterial" THEN None ELSE Some(col),
      roughness |-> r, metalness |-> m, clearcoat |-> cc,
      emissive |-> Some(e),
      transparent |-> t, opacity |-> o, side |-> sd] :
        c \in {"MeshPhysicalMaterial", "MeshStandardMaterial",
               "MeshLambertMaterial", "MeshBasicMaterial",
               "MeshPhongMaterial", "ShaderMaterial"},
        col \in {White, Red}, r \in {One, Half}, m \in {0, Half},
        cc \in {0, Half}, e \in {0, Red}, t \in BOOLEAN,
        o \in {One, Half}, sd \in {"FrontSide", "BackSide", "DoubleSide"}}

InitMaterial ==
    InitWith({Group},
             {[CubeMesh EXCEPT !.material = Single(m)] : m \in MaterialGrid},
             2, {<<>>, <<WalkClip>>}, {Config(TRUE, TRUE, TRUE, None)})

SpecMaterial == InitMaterial /\ [][Next]_vars

\* the material object the extractor reads for the i-th mesh entry
MaterialOf(i) == scene[MeshNodes[i]].material.items[1]

(* C2: the material type is chosen by the priority order physical, then   *)
(* standard, then lambert, then basic as fallback: a physical material    *)
(* (which is also an instance of the standard kind) is given              *)
(* TresMeshPhysicalMaterial and its clearcoat is extracted when           *)
(* non-default; a standard, non-physical one TresMeshStandardMaterial.    *)
C2_MaterialPriority ==
    Walked =>
        \A i \in 1..Len(data.meshes) :
            LET m == MaterialOf(i)
                e == data.meshes[i].material
            IN  /\ m.class = "MeshPhysicalMaterial" =>
                     /\ e.type = "TresMeshPhysicalMaterial"
                     /\ m.clearcoat # 0 =>
                          /\ HasKey(e.props, "clearcoat")
                          /\ Get(e.props, "clearcoat") = m.clearcoat
                /\ m.class = "MeshStandardMaterial" =>
                     e.type = "TresMeshStandardMaterial"
                /\ m.class = "MeshLambertMaterial" =>
                     e.type = "TresMeshLambertMaterial"
                /\ m.class \in {"MeshBasicMaterial", "MeshPhongMaterial",
                                "ShaderMaterial"} =>
                     e.type = "TresMeshBasicMaterial"

(* C3: the material property bag contains no key whose value equals the   *)
(* default: color only if the colour differs from white, roughness,       *)
(* metalness, clearcoat and emissive only if different from the engine    *)
(* default, transparent only if true, opacity only if below 1, side only  *)
(* if not front-facing; a material at every default yields an empty bag.  *)
C3_NoDefaultInBag ==
    Walked =>
        \A i \in 1..Len(data.meshes) :
            LET m == MaterialOf(i)
                props == data.meshes[i].material.props
            IN  /\ HasKey(props, "color") =>
                     (Has(m.color) /\ m.color[1] # White)
                /\ HasKey(props, "roughness") => m.roughness # One
                /\ HasKey(props, "metalness") => m.metalness # 0
                /\ HasKey(props, "clearcoat") => m.clearcoat # 0
                /\ HasKey(props, "emissive") => m.emissive[1] # 0
                /\ HasKey(props, "transparent") => m.transparent
                /\ HasKey(props, "opacity") => m.opacity < One
                /\ HasKey(props, "side") => m.side # "FrontSide"
                /\ m = Material(m.class) => props = <<>>

------------------------------------------------------------------------------
(* The transform extractor: one object under every transform of a grid    *)

\* coordinates with a fourth decimal, none of them half-way between two
\* numbers of three decimals: 0, 0.0001, 0.001, 2.005, -1.2346
Coords == {0, 1, 10, 20050, -12346}

Moved(class, position, rotation, scl) ==
    [Object3D(class) EXCEPT !.position = position, !.rotation = rotation,
                            !.scale = scl]

TransformGrid ==
    {Moved(c, <<x, y, z>>, r, s) :
        c \in {"Mesh", "DirectionalLight", "PerspectiveCamera"},
        x \in Coords, y \in Coords, z \in Coords,
        r \in {<<0, 0, 0>>, <<0, 3, 0>>, <<15708, 0, 0>>},
        s \in {<<One, One, One>>, <<One, One + 4, One>>,
               <<2 * One, 2 * One, 2 * One>>}}

InitTransform ==
    InitWith({Group}, TransformGrid, 2, {<<>>, <<WalkClip>>},
             {Config(TRUE, TRUE, TRUE, p) : p \in {None, Some(2), Some(3)}})

SpecTransform == InitTransform /\ [][Next]_vars

\* the decimal precision of the caller's configuration, 3 when none is given
Precision == IF Has(config.precision) THEN config.precision[1] ELSE 3

Rounded(v) == [k \in 1..3 |-> NumberToFixed(v[k], Precision)]

\* the transform descriptors of the IR, each with the node it comes from
TransformsWithNodes ==
    [i \in 1..Len(data.meshes) |->
        [t |-> data.meshes[i].transform, node |-> scene[MeshNodes[i]]]]
    \o [i \in 1..Len(data.lights) |->
        [t |-> data.lights[i].transform, node |-> scene[LightNodes[i]]]]
    \o [i \in 1..Len(data.cameras) |->
        [t |-> data.cameras[i].transform, node |-> scene[CameraNodes[i]]]]

(* C4: the transform extractor rounds each scalar to the decimal          *)
(* precision before comparing with the neutral value: no descriptor       *)
(* contains a position or rotation equal to (0,0,0) or a scale equal to   *)
(* (1,1,1), and a triple is present exactly when at least one rounded     *)
(* component differs from neutral.                                        *)
C4_NoNeutralTriple ==
    Walked =>
        \A i \in 1..Len(TransformsWithNodes) :
            LET t == TransformsWithNodes[i].t
                n == TransformsWithNodes[i].node
            IN  /\ Has(t.position) => t.position[1] # <<0, 0, 0>>
                /\ Has(t.rotation) => t.rotation[1] # <<0, 0, 0>>
                /\ Has(t.scale) => t.scale[1] # <<One, One, One>>
                /\ Has(t.position) <=> Rounded(n.position) # <<0, 0, 0>>
                /\ Has(t.rotation) <=> Rounded(n.rotation) # <<0, 0, 0>>
                /\ Has(t.scale) <=> Rounded(n.scale) # <<One, One, One>>

(* C5: every scalar emitted in a transform descriptor is rounded to the   *)
(* decimal precision of the caller's configuration (3 when none is        *)
(* given): with precision 2, a position of (0.001, 0.0, 2.005) is emitted *)
(* in full as (0.00, 0.00, 2.01).                                         *)
C5_RoundedToConfigPrecision ==
    Walked =>
        \A i \in 1..Len(TransformsWithNodes) :
            LET t == TransformsWithNodes[i].t
                n == TransformsWithNodes[i].node
            IN  /\ Has(t.position) => t.position[1] = Rounded(n.position)
                /\ Has(t.rotation) => t.rotation[1] = Rounded(n.rotation)
                /\ Has(t.scale) => t.scale[1] = Rounded(n.scale)
                /\ (Precision = 2 /\ n.position = <<10, 0, 20050>>)
                      => t.position = Some(<<0, 0, 20100>>)

------------------------------------------------------------------------------
(* The dispatch: scene graphs whose root is itself a group, a mesh, a     *)
(* light or a camera, over nodes of supported and unsupported kinds.      *)
(* Every sample stands at a position of its own, which parseTransform     *)
(* passes through to the entry.                                           *)

At(node, x, y, z) == [node EXCEPT !.position = <<x * One, y * One, z * One>>]

MeshA == At(CubeMesh, 1, 0, 0)
MeshB == At(BareMesh, 0, 2, 0)
FarHemiLight == At(HemiLight, 0, 0, 3)
PlainCamera == At(Object3D("Camera"), 4, 4, 0)

KindRoots == {Group, At(BareMesh, 7, 0, 0), DirLight, At(PerspCamera, 0, 8, 0)}
KindNodes == {MeshA, MeshB, FarHemiLight, PlainCamera, Group}

InitKinds ==
    InitWith(KindRoots, KindNodes, MaxNodes,
             {<<WalkClip>>}, {Config(TRUE, TRUE, TRUE, None)})

SpecKinds == InitKinds /\ [][Next]_vars

EntryPositions(entries) ==
    [i \in 1..Len(entries) |-> entries[i].transform.position]

\* the positions of a sequence of nodes, as optional members
NodePositions(nodes) ==
    [i \in 1..Len(nodes) |-> Some(scene[nodes[i]].position)]

------------------------------------------------------------------------------
(* The animation wiring of the emitted component, checked over the clip   *)
(* lists and the configurations of SpecAnimations.                        *)

\* the emitted component, once generateComponent has returned
Component == code[1]

\* the component plays the collected actions when it is mounted
HasPlayOnMount(c) ==
    \E i \in 1..Len(c.setup) : c.setup[i] = "onMounted(play all actions)"

\* the component calls the animation helper
CallsHelper(c) ==
    \E i \in 1..Len(c.setup) : c.setup[i] = "useAnimations(animations, group)"

\* the names an imports block imports, statement by statement
ImportsName(c, name) ==
    \E i \in 1..Len(c.imports) :
        \E k \in 1..Len(c.imports[i].names) : c.imports[i].names[k] = name

(* C13: in both lexical styles, composition and options, the emitted      *)
(* source contains the play-on-mount animation wiring if and only if      *)
(* animationNames is non-empty.                                           *)
C13_WiringIffAnimations ==
    pc = "done" => (HasPlayOnMount(Component) <=> Len(data.animations) > 0)

------------------------------------------------------------------------------
(* The light extractor: one light under every light of a grid             *)

LightGrid ==
    {[Object3D(c) EXCEPT !.intensity = i, !.color = col, !.distance = dist,
                         !.angle = a, !.penumbra = pen] :
        c \in {"DirectionalLight", "AmbientLight", "PointLight", "SpotLight",
               "HemisphereLight"},
        i \in {0, One, 2 * One}, col \in {White, Red},
        dist \in {0, 3 * One}, a \in {10472, 5000}, pen \in {0, Half}}

InitLight ==
    InitWith({Group}, LightGrid, 2, {<<>>, <<WalkClip>>},
             {Config(TRUE, TRUE, TRUE, None)})

SpecLight == InitLight /\ [][Next]_vars

\* the bag has the key with the value
HasValue(props, k, v) == HasKey(props, k) /\ Get(props, k) = v

(* C15: every light entry the walker appends carries an intensity key     *)
(* whatever the intensity value; point and spot entries additionally      *)
(* carry distance; spot entries additionally carry angle and penumbra; a  *)
(* color key is present exactly when the light's colour is not pure       *)
(* white.                                                                 *)
C15_LightProps ==
    Walked =>
        \A i \in 1..Len(data.lights) :
            LET light == scene[LightNodes[i]]
                props == data.lights[i].props
            IN  /\ HasValue(props, "intensity", light.intensity)
                /\ light.class \in {"PointLight", "SpotLight"} =>
                      HasValue(props, "distance", light.distance)
                /\ light.class = "SpotLight" =>
                      /\ HasValue(props, "angle", light.angle)
                      /\ HasValue(props, "penumbra", light.penumbra)
                /\ HasKey(props, "color") <=> light.color # White
                /\ HasKey(props, "color") =>
                      Get(props, "color") = HexLiteral(light.color)

------------------------------------------------------------------------------
(* The markup block in every configuration: both styles, typed and        *)
(* untyped, shadows on and off, over meshes of every pair of shadow       *)
(* flags, a light and a camera, the empty scene included.                 *)

ShadowMesh(cast, receive) ==
    [CubeMesh EXCEPT !.castShadow = cast, !.receiveShadow = receive]

StyleNodes ==
    {DirLight, PerspCamera}
    \cup {ShadowMesh(c, r) : c \in BOOLEAN, r \in BOOLEAN}

InitStyles ==
    InitWith({Group}, StyleNodes, 3, {<<>>, <<WalkClip>>}, AllConfigs)

SpecStyles == InitStyles /\ [][Next]_vars

BothMarkers == <<"cast-shadow", "receive-shadow">>

Places(cat) == {i \in 1..Len(Template) : Template[i].cat = cat}

(* C20: for every IR and both styles the markup block ends with exactly   *)
(* one line that references the original full scene object (the           *)
(* primitive bound to scene), placed after all light, mesh and camera     *)
(* lines, also when the IR has no entries at all.  The line is the last   *)
(* one inside the group element: only the closing tag follows it.         *)
C20_PrimitiveLast ==
    pc = "done" =>
        /\ Places("primitive") = {Len(Template) - 1}
        /\ Template[Len(Template) - 1].tag = "primitive"
        /\ Template[Len(Template) - 1].attrs = <<<<"object", "scene">>>>
        /\ Template[Len(Template)].cat = "close"
        /\ \A i \in Places("light") \cup Places("mesh") \cup Places("camera") :
              i < Len(Template) - 1

\* the empty scene in the options style: no entity line, and the primitive
C20_Witness ==
    /\ pc = "done"
    /\ Component.style = "options"
    /\ Len(scene) = 1
    /\ data.lights \o data.meshes \o data.cameras = <<>>
    /\ Places("light") \cup Places("mesh") \cup Places("camera") = {}
    /\ Places("primitive") # {}

------------------------------------------------------------------------------
(* The geometry extractor: one mesh under every geometry of a grid.  A    *)
(* parameter is absent, zero or two; a cone is a cylinder geometry by     *)
(* inheritance and keeps its own parameters radius and height.            *)

Geometry(class, kind, parameters) ==
    [class |-> class, type |-> <<kind, "Geometry">>,
     parameters |-> Some(parameters)]

Lengths == {None, Some(0), Some(2)}
Segments == {None, Some(8)}

GeometryGrid ==
    {Geometry("BoxGeometry", "Box",
              [NoParameters EXCEPT !.width = w, !.height = h, !.depth = d]) :
        w \in Lengths, h \in Lengths, d \in Lengths}
    \cup {Geometry("SphereGeometry", "Sphere",
              [NoParameters EXCEPT !.radius = r, !.widthSegments = ws,
                                   !.heightSegments = hs]) :
        r \in Lengths, ws \in Segments, hs \in Segments}
    \cup {Geometry("PlaneGeometry", "Plane",
              [NoParameters EXCEPT !.width = w, !.height = h]) :
        w \in Lengths, h \in Lengths}
    \cup {Geometry("CylinderGeometry", "Cylinder",
              [NoParameters EXCEPT !.radiusTop = rt, !.radiusBottom = rb,
                                   !.height = h]) :
        rt \in Lengths, rb \in Lengths, h \in Lengths}
    \cup {Geometry("ConeGeometry", "Cone",
              [NoParameters EXCEPT !.radius = Some(2), !.height = Some(2)]),
          Geometry("TorusGeometry", "Torus",
              [NoParameters EXCEPT !.radius = Some(2)]),
          BufferGeometry}

InitGeometry ==
    InitWith({Group},
             {[BareMesh EXCEPT !.geometry = g] : g \in GeometryGrid},
             2, {<<>>, <<WalkClip>>}, {Config(TRUE, TRUE, TRUE, None)})

SpecGeometry == InitGeometry /\ [][Next]_vars

\* a parameter as the claim reads it: kept when present, else the default
Kept(o, default) == IF Has(o) THEN o[1] ELSE default

\* the property bag that holds the argument list alone
ArgsOnly(args) == <<<<"args", args>>>>

(* C17: for box, sphere, plane and cylinder geometries the extractor      *)
(* yields the ordered argument list (box: width, height, depth; sphere:   *)
(* radius, widthSegments, heightSegments; plane: width, height;           *)
(* cylinder: radiusTop, radiusBottom, height) in which each parameter     *)
(* present on the node is kept unchanged and each absent parameter is     *)
(* replaced by its default (1,1,1 / 1,32,16 / 1,1 / 1,1,1); a geometry    *)
(* of any other kind yields its tag name with no argument list.           *)
C17_GeometryArgs ==
    Walked =>
        \A i \in 1..Len(data.meshes) :
            LET g == scene[MeshNodes[i]].geometry
                p == g.parameters[1]
                e == data.meshes[i].geometry
            IN  CASE g.class = "BoxGeometry" ->
                       e = [type |-> "Box",
                            props |-> ArgsOnly(<<Kept(p.width, 1),
                                                 Kept(p.height, 1),
                                                 Kept(p.depth, 1)>>)]
                  [] g.class = "SphereGeometry" ->
                       e = [type |-> "Sphere",
                            props |-> ArgsOnly(<<Kept(p.radius, 1),
                                                 Kept(p.widthSegments, 32),
                                                 Kept(p.heightSegments, 16)>>)]
                  [] g.class = "PlaneGeometry" ->
                       e = [type |-> "Plane",
                            props |-> ArgsOnly(<<Kept(p.width, 1),
                                                 Kept(p.height, 1)>>)]
                  [] g.class = "CylinderGeometry" ->
                       e = [type |-> "Cylinder",
                            props |-> ArgsOnly(<<Kept(p.radiusTop, 1),
                                                 Kept(p.radiusBottom, 1),
                                                 Kept(p.height, 1)>>)]
                  [] g.class = "ConeGeometry" ->
                       e = [type |-> "Cone", props |-> <<>>]
                  [] g.class = "TorusGeometry" ->
                       e = [type |-> "Torus", props |-> <<>>]
                  [] OTHER -> e = [type |-> "Buffer", props |-> <<>>]

------------------------------------------------------------------------------
(* Material arrays: meshes whose material is one material or an array of  *)
(* none, one or two materials                                             *)

\* mesh.material as an array of materials
MaterialArray(items) == [isArray |-> TRUE, items |-> items]

ArrayElements ==
    {[Material("MeshStandardMaterial") EXCEPT !.color = Some(Red)],
     [Material("MeshPhysicalMaterial") EXCEPT !.clearcoat = Half],
     Material("MeshLambertMaterial"),
     [Material("MeshBasicMaterial") EXCEPT !.transparent = TRUE,
                                           !.opacity = Half]}

ArrayMeshes ==
    {[CubeMesh EXCEPT !.material = MaterialArray(items)] :
        items \in SeqsUpTo(ArrayElements, 2)}
    \cup {[CubeMesh EXCEPT !.material = Single(m)] : m \in ArrayElements}

InitArrays ==
    InitWith({Group}, ArrayMeshes, 3, {<<WalkClip>>},
             {Config(TRUE, TRUE, TRUE, None)})

SpecArrays == InitArrays /\ [][Next]_vars

C19_NeverThrows == pc # "threw"

------------------------------------------------------------------------------
(* The imports block and the shadow markers, over the configurations      *)

\* the places (statement, position) at which the imports block of the
\* component imports the name
ImportPlaces(c, name) ==
    UNION {{<<i, k>> : k \in {j \in 1..Len(c.imports[i].names) :
                                  c.imports[i].names[j] = name}} :
              i \in 1..Len(c.imports)}

ImportedNames(c) ==
    UNION {{c.imports[i].names[k] : k \in 1..Len(c.imports[i].names)} :
              i \in 1..Len(c.imports)}

(* C29: in the emitted imports block no identifier is imported more than  *)
(* once: each imported name appears in exactly one import statement and   *)
(* from exactly one module, for every combination of style, typed flag    *)
(* and presence of animations.                                            *)
C29_NoDuplicateImport ==
    pc = "done" =>
        \A name \in ImportedNames(Component) :
            Cardinality(ImportPlaces(Component, name)) = 1

\* the marker is among the flags of a line
HasMarker(line, marker) ==
    \E k \in 1..Len(line.flags) : line.flags[k] = marker

(* C30: an emitted mesh line carries the cast-shadow marker only if the   *)
(* source mesh's castShadow flag is true, and the receive-shadow marker   *)
(* only if the source mesh's receiveShadow flag is true.                  *)
C30_MarkerPerFlag ==
    pc = "done" =>
        \A i \in 1..Len(LinesOf("mesh")) :
            LET line == LinesOf("mesh")[i]
                mesh == scene[MeshNodes[i]]
            IN  /\ HasMarker(line, "cast-shadow") => mesh.castShadow
                /\ HasMarker(line, "receive-shadow") => mesh.receiveShadow

------------------------------------------------------------------------------
(* The store useGltfStore (src/src/stores/useGltfStore.ts).  An async     *)
(* action is a call record that moves from one await to the next; the     *)
(* code between two awaits runs as one step.  parseToVue has no await     *)
(* inside: it runs, by the steps above, from the moment the loader has    *)
(* handed over the model until it returns or throws, and no store action  *)
(* runs in between.                                                       *)

\* most calls of async actions in one behaviour
MaxCalls == 2

FileA == <<"a", ".", "g", "l", "b">>
FileS == <<"s", ".", "g", "l", "t", "f">>
FileBin == <<"s", ".", "b", "i", "n">>

\* a Map<string, ArrayBuffer>: its entries <<path, content>> in insertion
\* order; a content is known by what the loader makes of it
BuffersA == <<<<FileA, "modelA">>>>
BuffersCorrupt == <<<<FileA, "corrupt">>>>
BuffersBroken == <<<<FileA, "modelC">>>>
BuffersMulti == <<<<FileS, "modelB">>, <<FileBin, "bin">>>>
AllBuffers == {BuffersA, BuffersCorrupt, BuffersBroken, BuffersMulti}

\* Map.get(path): the content under the path, if any
Lookup(buffers, path) ==
    IF \E i \in 1..Len(buffers) : buffers[i][1] = path
    THEN Some(buffers[CHOOSE i \in 1..Len(buffers) : buffers[i][1] = path][2])
    ELSE None

\* GLTFLoader.parse calls onLoad for a content that is a model
Decodes(content) == content \in {"modelA", "modelB", "modelC"}

\* the gltf GLTFLoader.parse hands to onLoad: model A is a mesh with one
\* clip, model B a light and a camera without clips, model C a mesh whose
\* material is an array without elements, on which parseToVue throws
Gltf(content) ==
    IF content = "modelA"
    THEN [scene |-> BuildScene(<<Group, CubeMesh>>, [i \in 2..2 |-> 1]),
          animations |-> <<WalkClip>>, cameras |-> <<>>]
    ELSE IF content = "modelC"
    THEN [scene |-> BuildScene(
                       <<Group, [CubeMesh EXCEPT
                                    !.material = MaterialArray(<<>>)]>>,
                       [i \in 2..2 |-> 1]),
          animations |-> <<>>, cameras |-> <<>>]
    ELSE [scene |-> BuildScene(<<Group, DirLight, PerspCamera>>,
                               [i \in 2..3 |-> 1]),
          animations |-> <<>>, cameras |-> <<PerspCamera>>]

\* a GltfConfig
GltfConfig(types, useComposition, shadows, pathPrefix) ==
    [types |-> types, useComposition |-> useComposition,
     shadows |-> shadows, pathPrefix |-> pathPrefix]

\* the ParseConfig generateVueScene hands to parseToVue
ParseConfigOf(cfg, resolvedFileName) ==
    [Config(cfg.types, cfg.useComposition, cfg.shadows, None)
        EXCEPT !.fileName = resolvedFileName]

\* what a call finds in the refs an action may assign
Assigned == [code |-> store.code, scene |-> store.scene,
             animations |-> store.animations, cameras |-> store.cameras]

\* a call of an async action at its start
Call(op, at, cfg) ==
    [op |-> op, pc |-> at, config |-> cfg, before |-> Assigned,
     resolvedFileName |-> <<>>, buffer |-> None, gltfResult |-> None,
     vueCode |-> None, zip |-> None, saved |-> None, message |-> ""]

\* the call numbered i has neither returned nor thrown
InFlight(i) == calls[i].pc \notin {"returned", "threw"}

\* no call is in flight
NoneInFlight == \A i \in 1..Len(calls) : ~InFlight(i)

\* the calls a new call joins: those made since no call was in flight
Log == IF NoneInFlight THEN <<>> ELSE calls

\* no parseToVue is running: the event loop can run a store action
Idle == pc = "idle"

\* a catch block that leaves the error ref alone
Unrecorded(prefix, message) == store.error

\* the error message of a catch block
Failed(prefix, message) == Some(prefix \o message)

clearError ==
    /\ Idle
    /\ store' = [store EXCEPT !.error = None]
    /\ UNCHANGED <<scene, animations, config, stack, data, code, pc, calls>>

setFileName(newFileName) ==
    /\ Idle
    /\ store' = [store EXCEPT !.fileName = newFileName, !.error = None]
    /\ UNCHANGED <<scene, animations, config, stack, data, code, pc, calls>>

\* setBuffers(newBuffers, newFileName?): the name is set only if given
setBuffers(newBuffers, newFileName) ==
    /\ Idle
    /\ store' = [store EXCEPT
                    !.buffers = Some(newBuffers),
                    !.fileName = IF Has(newFileName) /\ newFileName[1] # <<>>
                                 THEN newFileName[1] ELSE @,
                    !.code = None,
                    !.error = None]
    /\ UNCHANGED <<scene, animations, config, stack, data, code, pc, calls>>

\* reset(); the variant with the refs hasCode and hasAnimations clears
\* them too, and they are false in the other variant all along
reset ==
    /\ Idle
    /\ store' = [store EXCEPT
                    !.fileName = <<>>, !.code = None, !.buffers = None,
                    !.animations = <<>>, !.cameras = <<>>, !.scene = None,
                    !.hasCodeRef = FALSE, !.hasAnimationsRef = FALSE,
                    !.error = None, !.isLoading = FALSE]
    /\ UNCHANGED <<scene, animations, config, stack, data, code, pc, calls>>

\* the call numbered i with its fields changed
Resume(i, call) == [calls EXCEPT ![i] = call]

\* the variables of parseToVue while no call of it is running
ParserIdle(sc, an, cfg, st, c, at) ==
    /\ sc = <<Group>>
    /\ an = <<>>
    /\ cfg = Config(TRUE, TRUE, TRUE, None)
    /\ st = <<>>
    /\ c = None
    /\ at = "idle"

\* an accumulator of the module, which every call of parseToVue fills on
componentDataOfModule == data

\* const componentData: ComponentData = {...}: each call of parseToVue
\* creates its own
componentData == NewComponentData

\* `${config.pathPrefix}/${rawFileName}` when a prefix is given
ResolvedFileName(cfg, rawFileName) ==
    IF Has(cfg.pathPrefix) /\ cfg.pathPrefix[1] # <<>>
    THEN cfg.pathPrefix[1] \o <<"/">> \o rawFileName
    ELSE rawFileName

\* the buffer generateVueScene hands to the loader: the only entry of a map
\* of one, the entry under path, if any, of any other map
BufferOf(buffers, path) ==
    IF Len(buffers) # 1 THEN Lookup(buffers, path) ELSE Some(buffers[1][2])

\* generateVueScene(config) up to its first await: without buffers it
\* throws into its own catch and finally; else it hands the buffer of the
\* model to the loader (the only entry of a map of one, the entry under
\* path of any other map) and awaits the loader
generateVueSceneFrom(cfg, path) ==
    /\ Idle
    /\ Len(Log) < MaxCalls
    /\ IF store.buffers = None
       THEN /\ store' = [store EXCEPT
                  !.isLoading = FALSE,
                  !.error = Failed("Failed to generate Vue scene: ",
                                   "No buffers available")]
            /\ calls' = Append(Log,
                  [Call("generateVueScene", "threw", cfg)
                      EXCEPT !.message = "No buffers available"])
       ELSE /\ store' = [store EXCEPT !.isLoading = TRUE, !.error = None]
            /\ calls' = Append(Log,
                  [Call("generateVueScene", "loading", cfg) EXCEPT
                      !.resolvedFileName =
                          ResolvedFileName(cfg, store.fileName),
                      !.buffer = BufferOf(store.buffers[1], path)])
    /\ UNCHANGED <<scene, animations, config, stack, data, code, pc>>

\* the store of src/ looks the model up under fileName
generateVueScene(cfg) == generateVueSceneFrom(cfg, store.fileName)

\* the awaited promise of the loader rejects: no buffer under fileName, or
\* a content GLTFLoader.parse cannot read; catch and finally run
generateVueSceneLoadFailed(i) ==
    /\ Idle
    /\ calls[i].op = "generateVueScene" /\ calls[i].pc = "loading"
    /\ IF Has(calls[i].buffer) THEN ~Decodes(calls[i].buffer[1]) ELSE TRUE
    /\ LET message == IF Has(calls[i].buffer) THEN "Unexpected token"
                      ELSE "Buffer not found"
       IN  /\ store' = [store EXCEPT
                 !.isLoading = FALSE,
                 !.error = Failed("Failed to generate Vue scene: ", message)]
           /\ calls' = Resume(i, [calls[i] EXCEPT !.pc = "threw",
                                                  !.message = message])
    /\ UNCHANGED <<scene, animations, config, stack, data, code, pc>>

\* the loader calls onLoad: parseToVue is called on the gltf
generateVueSceneLoaded(i) ==
    /\ Idle
    /\ calls[i].op = "generateVueScene" /\ calls[i].pc = "loading"
    /\ IF Has(calls[i].buffer) THEN Decodes(calls[i].buffer[1]) ELSE FALSE
    /\ LET gltf == Gltf(calls[i].buffer[1])
       IN  /\ calls' = Resume(i, [calls[i] EXCEPT !.pc = "parsing",
                                                  !.gltfResult = Some(gltf)])
           /\ scene' = gltf.scene
           /\ animations' = gltf.animations
           /\ config' = ParseConfigOf(calls[i].config,
                                      calls[i].resolvedFileName)
    /\ stack' = <<1>>
    /\ data' = componentData
    /\ code' = None
    /\ pc' = "traverse"
    /\ UNCHANGED store

\* parseToVue has returned or thrown: the four refs are assigned and the
\* finally block runs, or catch and finally run
generateVueSceneParsed(i) ==
    /\ pc \in {"done", "threw"}
    /\ calls[i].op = "generateVueScene" /\ calls[i].pc = "parsing"
    /\ IF pc = "done"
       THEN LET gltf == calls[i].gltfResult[1]
            IN  /\ store' = [store EXCEPT
                      !.code = code,
                      !.animations = gltf.animations,
                      !.cameras = gltf.cameras,
                      !.scene = Some(gltf.scene),
                      !.isLoading = FALSE]
                /\ calls' = Resume(i, [calls[i] EXCEPT !.pc = "returned",
                                                       !.vueCode = code])
       ELSE /\ store' = [store EXCEPT
                  !.isLoading = FALSE,
                  !.error = Failed("Failed to generate Vue scene: ",
                                   "Cannot use 'in' operator")]
            /\ calls' = Resume(i, [calls[i] EXCEPT
                                      !.pc = "threw",
                                      !.message = "Cannot use 'in' operator"])
    /\ ParserIdle(scene', animations', config', stack', code', pc')
    /\ UNCHANGED data

\* the checks of downloadVueProject without the one for the code
NothingToZipButCode ==
    IF store.buffers = None \/ store.fileName = <<>>
    THEN "No GLTF file loaded"
    ELSE ""

\* what downloadVueProject throws before it packages, "" if nothing
NothingToZip ==
    IF store.buffers = None \/ store.fileName = <<>>
    THEN "No GLTF file loaded"
    ELSE IF store.code = None THEN "No Vue component generated"
    ELSE ""

\* downloadVueProject(config) up to its await of createVueZip
downloadVueProject(cfg) ==
    /\ Idle
    /\ Len(Log) < MaxCalls
    /\ LET message == NothingToZip
       IN  IF message # ""
           THEN /\ store' = [store EXCEPT
                      !.isLoading = FALSE,
                      !.error = Failed("Failed to create zip: ", message)]
                /\ calls' = Append(Log,
                      [Call("downloadVueProject", "threw", cfg)
                          EXCEPT !.message = message])
           ELSE /\ store' = [store EXCEPT !.isLoading = TRUE, !.error = None]
                /\ calls' = Append(Log,
                      [Call("downloadVueProject", "zipping", cfg) EXCEPT
                          !.zip = Some([code |-> store.code,
                                        buffers |-> store.buffers[1],
                                        fileName |-> store.fileName])])
    /\ UNCHANGED <<scene, animations, config, stack, data, code, pc>>

\* createVueZip has resolved: saveAs under the project name, and finally
downloadVueProjectZipped(i) ==
    /\ Idle
    /\ calls[i].op = "downloadVueProject" /\ calls[i].pc = "zipping"
    /\ store' = [store EXCEPT !.isLoading = FALSE]
    /\ calls' = Resume(i, [calls[i] EXCEPT
          !.pc = "returned",
          !.saved = Some([zip |-> calls[i].zip[1],
                          name |-> BeforeFirst(store.fileName, ".")
                                   \o <<"-", "v", "u", "e", ".", "z", "i", "p">>])])
    /\ UNCHANGED <<scene, animations, config, stack, data, code, pc>>

\* what the components hand to the store
FileNames == {FileA, FileS}
GltfConfigs ==
    {GltfConfig(TRUE, TRUE, TRUE, None),
     GltfConfig(FALSE, FALSE, FALSE, Some(<<"m">>))}

\* const hasCode = computed(() => code.value.length > 0)
hasCode == Has(store.code)

\* const hasAnimations = computed(() => animations.value.length > 0)
hasAnimations == Len(store.animations) > 0

\* the store before any action, and no parseToVue running
InitStore ==
    /\ store = NewStore
    /\ calls = <<>>
    /\ ParserIdle(scene, animations, config, stack, code, pc)
    /\ data = NewComponentData

\* the synchronous actions
StoreSetters ==
    \/ clearError
    \/ \E name \in FileNames \cup {<<>>} : setFileName(name)
    \/ \E b \in AllBuffers, name \in {None} \cup {Some(f) : f \in FileNames} :
          setBuffers(b, name)
    \/ reset

\* the steps of a call after its first await
StoreAwaits ==
    \/ \E i \in 1..Len(calls) : generateVueSceneLoadFailed(i)
    \/ \E i \in 1..Len(calls) : generateVueSceneLoaded(i)
    \/ \E i \in 1..Len(calls) : generateVueSceneParsed(i)
    \/ \E i \in 1..Len(calls) : downloadVueProjectZipped(i)
    \/ TraverseStep \/ AnimationsStep \/ GenerateStep

\* the store of src/src/stores/useGltfStore.ts, its async actions called
\* one after the other
NextStore ==
    \/ StoreSetters
    \/ \E cfg \in GltfConfigs : NoneInFlight /\ generateVueScene(cfg)
    \/ \E cfg \in GltfConfigs : NoneInFlight /\ downloadVueProject(cfg)
    \/ StoreAwaits

SpecStore == InitStore /\ [][NextStore]_vars

\* the same store fed by uploads (setBuffers with the file's own name), an
\* async action called while another is in flight
NextOverlap ==
    \/ \E b \in AllBuffers : setBuffers(b, Some(b[1][1]))
    \/ \E cfg \in GltfConfigs : generateVueScene(cfg)
    \/ \E cfg \in GltfConfigs : downloadVueProject(cfg)
    \/ StoreAwaits

SpecOverlap == InitStore /\ [][NextOverlap]_vars

------------------------------------------------------------------------------
(* The store variant src/unnamed/part_006: hasCode and hasAnimations are   *)
(* refs, the model is looked up under the prefixed file name, and the      *)
(* text comes from parseToVue of vueGltfParser.ts                          *)

\* parseToVue(gltf, config) of vueGltfParser.ts: every node of the scene,
\* the root too, that is a Mesh makes a mesh block, every directional,
\* ambient or point light a light line.  Of the text the model keeps the
\* style, the lang attribute, the default path, the nodes behind the
\* blocks and lines, and whether the animation wiring is written
parseToVueOfVariant(gltf, cfg) ==
    LET visited == PreOrder(gltf.scene, 1)
        IsLight(n) ==
            /\ ~InstanceOf(gltf.scene[n].class, "Mesh")
            /\ \/ InstanceOf(gltf.scene[n].class, "DirectionalLight")
               \/ InstanceOf(gltf.scene[n].class, "AmbientLight")
               \/ InstanceOf(gltf.scene[n].class, "PointLight")
    IN  [style |-> IF cfg.useComposition THEN "composition" ELSE "options",
         lang |-> cfg.types,
         path |-> cfg.fileName,
         lights |-> SelectSeq(visited, IsLight),
         meshes |-> SelectSeq(visited,
                       LAMBDA n : InstanceOf(gltf.scene[n].class, "Mesh")),
         shadows |-> cfg.shadows,
         wiring |-> Len(gltf.animations) > 0]

\* the variant looks the model up under finalFileName
generateVueSceneOfVariant(cfg) ==
    generateVueSceneFrom(cfg, ResolvedFileName(cfg, store.fileName))

\* the loader calls onLoad: parseToVue returns, the four refs and the refs
\* hasCode and hasAnimations are assigned, and finally runs
generateVueSceneLoadedOfVariant(i) ==
    /\ Idle
    /\ calls[i].op = "generateVueScene" /\ calls[i].pc = "loading"
    /\ IF Has(calls[i].buffer) THEN Decodes(calls[i].buffer[1]) ELSE FALSE
    /\ LET gltf == Gltf(calls[i].buffer[1])
           vueCode == Some(parseToVueOfVariant(gltf,
                              ParseConfigOf(calls[i].config,
                                            calls[i].resolvedFileName)))
       IN  /\ store' = [store EXCEPT
                 !.code = vueCode,
                 !.animations = gltf.animations,
                 !.cameras = gltf.cameras,
                 !.scene = Some(gltf.scene),
                 !.hasCodeRef = TRUE,
                 !.hasAnimationsRef = Len(gltf.animations) > 0,
                 !.isLoading = FALSE]
           /\ calls' = Resume(i, [calls[i] EXCEPT !.pc = "returned",
                                                  !.gltfResult = Some(gltf),
                                                  !.vueCode = vueCode])
    /\ UNCHANGED <<scene, animations, config, stack, data, code, pc>>

NextStoreRefs ==
    \/ StoreSetters
    \/ \E cfg \in GltfConfigs : NoneInFlight /\ generateVueSceneOfVariant(cfg)
    \/ \E cfg \in GltfConfigs : NoneInFlight /\ downloadVueProject(cfg)
    \/ \E i \in 1..Len(calls) : generateVueSceneLoadFailed(i)
    \/ \E i \in 1..Len(calls) : generateVueSceneLoadedOfVariant(i)
    \/ \E i \in 1..Len(calls) : downloadVueProjectZipped(i)

SpecStoreRefs == InitStore /\ [][NextStoreRefs]_vars

\* generateVueScene called again and again on the buffers of one upload
InitRuns ==
    /\ \E b \in AllBuffers, name \in FileNames :
          store = [NewStore EXCEPT !.buffers = Some(b), !.fileName = name]
    /\ calls = <<>>
    /\ ParserIdle(scene, animations, config, stack, code, pc)
    /\ data = NewComponentData

NextRuns ==
    \/ \E cfg \in GltfConfigs : generateVueScene(cfg)
    \/ \E i \in 1..Len(calls) : generateVueSceneLoadFailed(i)
    \/ \E i \in 1..Len(calls) : generateVueSceneLoaded(i)
    \/ \E i \in 1..Len(calls) : generateVueSceneParsed(i)
    \/ TraverseStep \/ AnimationsStep \/ GenerateStep

SpecRuns == InitRuns /\ [][NextRuns]_vars

------------------------------------------------------------------------------
(* Claims about the store                                                  *)

\* this step is the first step of a call of the action op
Starts(op) ==
    /\ calls' # calls
    /\ Len(calls') = Len(Log) + 1
    /\ calls'[Len(calls')].op = op

\* the call a step has started
Newest == calls'[Len(calls')]

\* the call numbered i returns or throws in this step
Finishes(i) ==
    /\ InFlight(i)
    /\ Len(calls') = Len(calls)
    /\ calls'[i].pc \in {"returned", "threw"}

\* a call that has returned or thrown takes no further step
StaysFinished ==
    \A i \in 1..Len(calls) :
        (~InFlight(i) /\ ~NoneInFlight) =>
            (i <= Len(calls') /\ calls'[i] = calls[i])

(* C22: without buffers in the store, generateVueScene fails before any   *)
(* loading or compilation: the call throws in its first step with 'No     *)
(* buffers available', no buffer is handed to the loader, parseToVue is    *)
(* not running, error is 'Failed to generate Vue scene: No buffers         *)
(* available', code is what it was, and the call takes no further step.    *)
C22_NoBuffersFailsBeforeLoading ==
    [][/\ (Starts("generateVueScene") /\ store.buffers = None) =>
            /\ Newest.pc = "threw"
            /\ Newest.message = "No buffers available"
            /\ Newest.buffer = None
            /\ Newest.gltfResult = None
            /\ pc' = "idle"
            /\ store'.error =
                  Some("Failed to generate Vue scene: No buffers available")
            /\ store'.code = store.code
       /\ StaysFinished]_vars

C22_Witness ==
    /\ store.buffers = None
    /\ store.error = Some("Failed to generate Vue scene: No buffers available")
    /\ \E i \in 1..Len(calls) :
          /\ calls[i].op = "generateVueScene"
          /\ calls[i].pc = "threw"
          /\ calls[i].message = "No buffers available"

\* what the claim C23 says of a call of generateVueScene that has thrown
\* or returned in this step, c the call after the step
FinishedAsStated(c) ==
    /\ store'.isLoading = FALSE
    /\ c.pc = "threw" =>
          /\ store'.error = Some("Failed to generate Vue scene: " \o c.message)
          /\ Assigned' = c.before
    /\ c.pc = "returned" =>
          /\ Has(store'.code)
          /\ store'.code = c.vueCode
          /\ store'.animations = c.gltfResult[1].animations
          /\ store'.cameras = c.gltfResult[1].cameras
          /\ store'.scene = Some(c.gltfResult[1].scene)
          /\ store'.error = None

(* C23: every call of generateVueScene that finishes leaves isLoading     *)
(* false; if it threw, error is 'Failed to generate Vue scene: ' and the   *)
(* message, and code, scene, animations and cameras are what they were     *)
(* when the call started; if it returned, code, animations, cameras and    *)
(* scene are those of its model and error is null.                         *)
C23_FinishedCall ==
    [][/\ (Starts("generateVueScene") /\ Newest.pc = "threw") =>
             FinishedAsStated(Newest)
       /\ \A i \in 1..Len(calls) :
             (calls[i].op = "generateVueScene" /\ Finishes(i)) =>
                 FinishedAsStated(calls'[i])]_vars

(* C24: downloadVueProject packages only when buffers, a non-empty        *)
(* fileName and a non-empty code are all there: a call awaits createVueZip *)
(* only on such a store and with that code; a call on any other store      *)
(* throws in its first step, neither createVueZip nor saveAs is called,    *)
(* error is 'Failed to create zip: ' and the message, isLoading is false,  *)
(* and code, buffers and fileName are what they were.                      *)
C24_PackagesOnlyWhenComplete ==
    [][/\ Starts("downloadVueProject") =>
            IF Has(store.buffers) /\ store.fileName # <<>> /\ Has(store.code)
            THEN /\ Newest.pc = "zipping"
                 /\ Newest.zip = Some([code |-> store.code,
                                       buffers |-> store.buffers[1],
                                       fileName |-> store.fileName])
            ELSE /\ Newest.pc = "threw"
                 /\ Newest.zip = None
                 /\ Newest.saved = None
                 /\ Newest.message \in {"No GLTF file loaded",
                                        "No Vue component generated"}
                 /\ store'.error =
                       Some("Failed to create zip: " \o Newest.message)
                 /\ store'.isLoading = FALSE
                 /\ store'.code = store.code
                 /\ store'.buffers = store.buffers
                 /\ store'.fileName = store.fileName
       /\ \A i \in 1..Len(calls) :
             (calls[i].op = "downloadVueProject" /\ Len(calls') = Len(calls)
                /\ Has(calls'[i].saved)) =>
                   (Has(calls[i].zip) /\ Has(calls[i].zip[1].code))
       /\ StaysFinished]_vars

\* a download refused for want of code
C24_Witness ==
    \E i \in 1..Len(calls) :
        /\ calls[i].op = "downloadVueProject"
        /\ calls[i].pc = "threw"
        /\ calls[i].message = "No Vue component generated"
        /\ Has(store.buffers) /\ store.fileName # <<>>
        /\ store.error =
              Some("Failed to create zip: No Vue component generated")

\* the calls of generateVueScene that have returned
Returned ==
    {i \in 1..Len(calls) :
        calls[i].op = "generateVueScene" /\ calls[i].pc = "returned"}

\* two calls handed parseToVue the same scene graph, clip list and config
SameInputs(i, j) ==
    /\ calls[i].gltfResult = calls[j].gltfResult
    /\ calls[i].config = calls[j].config
    /\ calls[i].resolvedFileName = calls[j].resolvedFileName

\* the place of a tag in the order of Array.prototype.sort
TagRank(t) == CHOOSE k \in 1..Len(TagOrder) : TagOrder[k] = t

\* the names imported from '@tresjs/core' by a component
CoreNames(c) ==
    c.imports[CHOOSE k \in 1..Len(c.imports) :
                  c.imports[k].from = "@tresjs/core"].names

(* C21: two runs of parseToVue on the same scene graph, clip list and     *)
(* config return the same text, and the names imported from '@tresjs/core' *)
(* stand in sorted order, whatever the order the walk met them in.         *)
C21_SameInputsSameText ==
    /\ \A i, j \in Returned :
          SameInputs(i, j) => calls[i].vueCode = calls[j].vueCode
    /\ \A i \in Returned :
          LET names == CoreNames(calls[i].vueCode[1])
          IN  \A a, b \in 1..Len(names) :
                 a < b => TagRank(names[a]) < TagRank(names[b])

C21_Witness ==
    \E i, j \in Returned :
        /\ i # j
        /\ SameInputs(i, j)
        /\ Len(CoreNames(calls[i].vueCode[1])) > 2

(* C28: in the store variant with the refs hasCode and hasAnimations,      *)
(* after any sequence of setBuffers, setFileName, generateVueScene, reset   *)
(* and clearError, hasCode is true exactly when code is not empty and       *)
(* hasAnimations exactly when the animations list is not empty.             *)
C28_FlagsFollowState ==
    /\ store.hasCodeRef <=> Has(store.code)
    /\ store.hasAnimationsRef <=> store.animations # <<>>

\* the call numbered i handed the loader a buffer of the map the store
\* holds now
OnStoredBuffers(i) ==
    /\ Has(store.buffers)
    /\ \E k \in 1..Len(store.buffers[1]) :
          calls[i].buffer = Some(store.buffers[1][k][2])

\* the call of generateVueScene numbered i returns in this step
Succeeds(i) ==
    /\ calls[i].op = "generateVueScene"
    /\ Finishes(i)
    /\ calls'[i].pc = "returned"

(* C25: once setBuffers has emptied code, code stays empty and hasCode     *)
(* false in every state until a generateVueScene on the buffers now stored  *)
(* succeeds: the code of an earlier model is never shown for them.          *)
C25_EmptyUntilNextSuccess ==
    [][(/\ Has(store.buffers)
        /\ ~hasCode
        /\ ~\E i \in 1..Len(calls) : Succeeds(i) /\ OnStoredBuffers(i))
       => ~hasCode']_vars

(* C26: while two async actions overlap (two generateVueScene, or          *)
(* generateVueScene and downloadVueProject), isLoading is true in every    *)
(* state in which one of them is in flight.                                *)
C26_LoadingWhileInFlight ==
    (\E i \in 1..Len(calls) : InFlight(i)) => store.isLoading

(* C27: a generateVueScene that writes its result was started on the       *)
(* buffers stored at the moment it writes: a generation started on earlier *)
(* buffers never writes after setBuffers has installed other buffers or    *)
(* reset has cleared the store.                                            *)
C27_NoStaleWrite ==
    [][\A i \in 1..Len(calls) : Succeeds(i) => OnStoredBuffers(i)]_vars

==============================================================================
